---- MODULE Spec2Model ----
(***************************************************************************)
(* Model of src/app.py: the serial read loop of the nozzle-condition       *)
(* monitor, its sliding sample buffer (st.session_state.data), the feature *)
(* extraction and inference chain of process_data, the classification      *)
(* history (st.session_state.pca_history) and the prediction tally         *)
(* (st.session_state.predictions).                                         *)
(*                                                                         *)
(* One loop iteration (read a line, parse it, process it, report) is one   *)
(* atomic step: the script is single-threaded and nothing else touches the *)
(* session state while an iteration runs.                                  *)
(***************************************************************************)
EXTENDS Integers, Sequences, FiniteSets, TLC

(***************************************************************************)
(* Bounds.  WINDOW_SIZE is 200 in src/app.py:23; the model runs the same   *)
(* code with a short window so that every fill level, the first full       *)
(* window and several evictions are all explored exhaustively.             *)
(***************************************************************************)
WINDOW_SIZE == 3

\* process_data calls explored per run (enough for WINDOW_SIZE + 2 pushes).
MaxPushes == 5

(***************************************************************************)
(* Floating-point values.  A float is NaN, a signed infinity, or a finite  *)
(* value kept as a reduced fraction n/d with d > 0 (rounding is not        *)
(* modelled; the non-finite cases follow IEEE-754 as numpy/Python do).     *)
(***************************************************************************)
Abs(i) == IF i < 0 THEN -i ELSE i

Sign(i) == IF i < 0 THEN -1 ELSE IF i > 0 THEN 1 ELSE 0

RECURSIVE GCD(_, _)
GCD(a, b) == IF b = 0 THEN a ELSE GCD(b, a % b)

NaN == [k |-> "nan", n |-> 0, d |-> 1]

Inf(s) == [k |-> "inf", n |-> s, d |-> 1]

Frac(n, d) ==
    LET g == GCD(Abs(n), d)
    IN  [k |-> "fin", n |-> n \div g, d |-> d \div g]

Int2F(i) == Frac(i, 1)

IsNaN(a) == a.k = "nan"

IsInf(a) == a.k = "inf"

IsFinite(a) == a.k = "fin"

FNeg(a) == IF IsNaN(a) THEN NaN ELSE [a EXCEPT !.n = -a.n]

FAbs(a) == IF IsNaN(a) THEN NaN ELSE [a EXCEPT !.n = Abs(a.n)]

FAdd(a, b) ==
    IF IsNaN(a) \/ IsNaN(b) THEN NaN
    ELSE IF IsInf(a) /\ IsInf(b) THEN (IF a.n = b.n THEN a ELSE NaN)
    ELSE IF IsInf(a) THEN a
    ELSE IF IsInf(b) THEN b
    ELSE Frac(a.n * b.d + b.n * a.d, a.d * b.d)

FSub(a, b) == FAdd(a, FNeg(b))

FMul(a, b) ==
    IF IsNaN(a) \/ IsNaN(b) THEN NaN
    ELSE IF IsInf(a) \/ IsInf(b)
         THEN (IF a.n = 0 \/ b.n = 0 THEN NaN ELSE Inf(Sign(a.n) * Sign(b.n)))
    ELSE Frac(a.n * b.n, a.d * b.d)

\* numpy float64 division: x/0 is +-inf (0/0 is nan), finite/inf is 0.
FDiv(a, b) ==
    IF IsNaN(a) \/ IsNaN(b) THEN NaN
    ELSE IF IsInf(a) /\ IsInf(b) THEN NaN
    ELSE IF IsInf(a) THEN Inf(a.n * (IF b.n < 0 THEN -1 ELSE 1))
    ELSE IF IsInf(b) THEN Int2F(0)
    ELSE IF b.n = 0 THEN (IF a.n = 0 THEN NaN ELSE Inf(Sign(a.n)))
    ELSE Frac(a.n * b.d * Sign(b.n), a.d * Abs(b.n))

\* a == 0 as Python/numpy evaluate it (NaN and infinities are not 0).
FIsZero(a) == IsFinite(a) /\ a.n = 0

RECURSIVE FSum(_)
FSum(s) == IF s = <<>> THEN Int2F(0) ELSE FAdd(Head(s), FSum(Tail(s)))

(***************************************************************************)
(* Python values and exceptions.                                           *)
(***************************************************************************)
None == "None"

\* `if state:` - None is falsy, a label (non-empty string) is truthy.
Truthy(state) == state # None

\* `except ValueError` catches ValueError and its subclasses
\* (UnicodeDecodeError, numpy's LinAlgError); KeyError, AttributeError and
\* serial.SerialException are not among them.
IsValueError(exc) == exc \in {"ValueError", "UnicodeDecodeError", "LinAlgError"}

(***************************************************************************)
(* Input lines.  A decoded, stripped line is kept as the list of fields    *)
(* line.split(',') yields; the empty line splits into one empty field.     *)
(***************************************************************************)
EmptyLine == << "" >>

\* Variant: the loop without its `if line:` test.
LineAlwaysTruthy(line) == TRUE

\* `if line:`
LineTruthy(line) == line # EmptyLine

\* Variant: text that is no float literal is read as NaN instead of raising.
ParseFloatLenient(tok) ==
    CASE tok = "0"   -> [ok |-> TRUE, val |-> Int2F(0)]
      [] tok = "1"   -> [ok |-> TRUE, val |-> Int2F(1)]
      [] tok = "2"   -> [ok |-> TRUE, val |-> Int2F(2)]
      [] tok = "3"   -> [ok |-> TRUE, val |-> Int2F(3)]
      [] tok = "4"   -> [ok |-> TRUE, val |-> Int2F(4)]
      [] tok = "inf" -> [ok |-> TRUE, val |-> Inf(1)]
      [] OTHER       -> [ok |-> TRUE, val |-> NaN]

\* float(text): the value, or ValueError for text that is no float literal.
ParseFloat(tok) ==
    CASE tok = "0"   -> [ok |-> TRUE, val |-> Int2F(0)]
      [] tok = "1"   -> [ok |-> TRUE, val |-> Int2F(1)]
      [] tok = "2"   -> [ok |-> TRUE, val |-> Int2F(2)]
      [] tok = "3"   -> [ok |-> TRUE, val |-> Int2F(3)]
      [] tok = "4"   -> [ok |-> TRUE, val |-> Int2F(4)]
      [] tok = "nan" -> [ok |-> TRUE, val |-> NaN]
      [] tok = "inf" -> [ok |-> TRUE, val |-> Inf(1)]
      [] OTHER       -> [ok |-> FALSE, val |-> NaN]

\* `len(parts) == 2`
TwoFields(parts) == Len(parts) = 2

\* Lines the transport delivers in the model: well-formed samples (finite,
\* NaN and infinite encoder counts; currents are finite), lines with the
\* wrong number of fields, lines with a non-numeric field, and the empty
\* line of a read that timed out.
SampleLines ==
    { <<"0", "1">>, <<"1", "1">>, <<"2", "3">>, <<"nan", "1">>, <<"inf", "1">> }

BadFieldCountLines == { <<"1">>, <<"1", "1", "1">> }

BadNumberLines == { <<"abc", "1">>, <<"1", "abc">> }

Lines == SampleLines \cup BadFieldCountLines \cup BadNumberLines \cup {EmptyLine}

(***************************************************************************)
(* Sample buffer: st.session_state.data, a DataFrame kept as a sequence of *)
(* rows, oldest first.  idx is the row's index label; seq is a history     *)
(* field (the ordinal of the process_data call that pushed the row) that   *)
(* the program does not read.                                              *)
(***************************************************************************)
Row(idx, seq, enc, cur) ==
    [idx |-> idx, seq |-> seq, EncoderCount |-> enc, Current |-> cur]

\* Variant: pd.concat without ignore_index=True; the new row keeps label 0.
ConcatKeepLabels(d, seq, enc, cur) == Append(d, Row(0, seq, enc, cur))

\* pd.concat([data, new_row], ignore_index=True): append, relabel 0..n-1.
Concat(d, seq, enc, cur) ==
    [i \in 1..(Len(d) + 1) |->
        IF i <= Len(d) THEN [d[i] EXCEPT !.idx = i - 1]
        ELSE Row(i - 1, seq, enc, cur)]

\* Variant: data.iloc[:WINDOW_SIZE], which keeps the oldest rows.
FirstRows(d) == SubSeq(d, 1, WINDOW_SIZE)

\* Variant: data.iloc[-(WINDOW_SIZE - 1):], a slice one row short.
LastRowsShort(d) == SubSeq(d, Len(d) - WINDOW_SIZE + 2, Len(d))

\* data.iloc[-WINDOW_SIZE:]: the last WINDOW_SIZE rows, labels kept.
LastRows(d) == SubSeq(d, Len(d) - WINDOW_SIZE + 1, Len(d))

\* Variant: trims only once the buffer is two rows over.
TrimLate(d) == IF Len(d) > WINDOW_SIZE + 1 THEN LastRows(d) ELSE d

\* lines 40-41
Trim(d) == IF Len(d) > WINDOW_SIZE THEN LastRows(d) ELSE d

\* Variant: evaluates one row early.
IsFullEarly(d) == Len(d) >= WINDOW_SIZE - 1

\* line 44
IsFull(d) == Len(d) = WINDOW_SIZE

(***************************************************************************)
(* Feature extraction (lines 46-61).                                       *)
(***************************************************************************)
Column(w, name) == [i \in 1..Len(w) |-> w[i][name]]

NotNaN(a) == ~IsNaN(a)

\* Series.mean(): NaN entries are skipped; no entries left gives NaN.
Mean(col) ==
    LET vals == SelectSeq(col, NotNaN)
    IN  IF vals = <<>> THEN NaN ELSE FDiv(FSum(vals), Int2F(Len(vals)))

\* Series.var(): unbiased (ddof = 1), NaN entries skipped.
Var(col) ==
    LET vals == SelectSeq(col, NotNaN)
        m    == Mean(col)
        sq   == [i \in 1..Len(vals) |->
                    FMul(FSub(vals[i], m), FSub(vals[i], m))]
    IN  IF Len(vals) < 2 THEN NaN
        ELSE FDiv(FSum(sq), Int2F(Len(vals) - 1))

\* line 48
EncoderDiff(w) ==
    FAbs(FSub(w[Len(w)].EncoderCount, w[1].EncoderCount))

\* Variant: the guard without its zero test.
SkipOnlyNaN(diff) == IsNaN(diff)

\* line 51: encoder_diff == 0 or np.isnan(encoder_diff)
SkipWindow(diff) == FIsZero(diff) \/ IsNaN(diff)

\* Variant: a fit through the origin (no intercept term).
PolyfitThroughOrigin(xs, ys) ==
    LET n   == Len(xs)
        X   == [i \in 1..n |-> Int2F(xs[i])]
        sxy == FSum([i \in 1..n |-> FMul(X[i], ys[i])])
        sxx == FSum([i \in 1..n |-> FMul(X[i], X[i])])
    IN  IF \E i \in 1..n : ~IsFinite(ys[i]) THEN NaN ELSE FDiv(sxy, sxx)

\* np.polyfit(x, y, 1)[0]: least-squares slope of y against the index
\* labels x.  A NaN or infinite y raises nothing (only the finite x matrix
\* is decomposed) and makes the solution NaN.
Polyfit1(xs, ys) ==
    LET n   == Len(xs)
        X   == [i \in 1..n |-> Int2F(xs[i])]
        sx  == FSum(X)
        sy  == FSum(ys)
        sxy == FSum([i \in 1..n |-> FMul(X[i], ys[i])])
        sxx == FSum([i \in 1..n |-> FMul(X[i], X[i])])
        num == FSub(FMul(Int2F(n), sxy), FMul(sx, sy))
        den == FSub(FMul(Int2F(n), sxx), FMul(sx, sx))
    IN  IF \E i \in 1..n : ~IsFinite(ys[i]) THEN NaN ELSE FDiv(num, den)

\* lines 46-61: [Current/Encoder, CurrentVar, EncoderSlope]
Features(w) ==
    LET current_mean == Mean(Column(w, "Current"))
        current_var  == Var(Column(w, "Current"))
        encoder_diff == EncoderDiff(w)
        current_per_encoder ==
            FMul(FDiv(current_mean, encoder_diff), Int2F(1000))
        encoder_slope ==
            Polyfit1(Column(w, "idx"), Column(w, "EncoderCount"))
    IN  << current_per_encoder, current_var, encoder_slope >>

(***************************************************************************)
(* Inference chain (lines 63-79).  A stage either returns a value or       *)
(* raises; Ok/Raise carry which.                                           *)
(***************************************************************************)
Ok(v) == [ok |-> TRUE, out |-> v, exc |-> None]

Raise(e) == [ok |-> FALSE, out |-> <<>>, exc |-> e]

\* SimpleImputer(strategy='mean').fit_transform on the single feature row:
\* an infinite entry is rejected with ValueError; a NaN entry is a column
\* with no observed value, which the imputer drops; finite entries pass.
Impute(f) ==
    IF \E i \in 1..Len(f) : IsInf(f[i]) THEN Raise("ValueError")
    ELSE Ok(SelectSeq(f, NotNaN))

(***************************************************************************)
(* The joblib artifacts are opaque to app.py.  The model fixes them at     *)
(* start-up as one of a few behaviours: a stage is "ok" (a deterministic   *)
(* transform that checks the number of features, as scikit-learn's         *)
(* estimators do), or it raises on every call: "ValueError" (fitted on     *)
(* another feature count) or "AttributeError" (pickled by an incompatible  *)
(* library version).  A healthy assigner is fitted with 2 clusters ("k2")  *)
(* or, mismatching STATE_MAPPING, with 3 ("k3").                           *)
(***************************************************************************)
StageFaults == {"ValueError", "AttributeError"}

Artifacts ==
    { a \in [scaler : {"ok"} \cup StageFaults,
             pca    : {"ok"} \cup StageFaults,
             kmeans : {"k2", "k3"} \cup StageFaults] :
        Cardinality({s \in {"scaler", "pca", "kmeans"} :
                        a[s] \notin {"ok", "k2"}}) <= 1 }

\* scaler.transform(features): identity on 3 features.
ScalerTransform(a, f) ==
    IF a.scaler # "ok" THEN Raise(a.scaler)
    ELSE IF Len(f) # 3 THEN Raise("ValueError")
    ELSE Ok(f)

\* pca.transform(features): 3 features to 2 components (the first two).
PcaTransform(a, f) ==
    IF a.pca # "ok" THEN Raise(a.pca)
    ELSE IF Len(f) # 3 THEN Raise("ValueError")
    ELSE Ok(SubSeq(f, 1, 2))

FLessEq(x, y) == x.n * y.d <= y.n * x.d

\* kmeans.predict(pca_features)[0]: nearest centroid along PCA1.
KMeansPredict(a, p) ==
    IF a.kmeans \in StageFaults THEN Raise(a.kmeans)
    ELSE IF Len(p) # 2 THEN Raise("ValueError")
    ELSE IF FLessEq(p[1], Int2F(1000)) THEN Ok(0)
    ELSE IF a.kmeans = "k2" \/ FLessEq(p[1], Int2F(2000)) THEN Ok(1)
    ELSE Ok(2)

\* line 24
STATE_MAPPING == [c \in {0, 1} |-> IF c = 0 THEN "Clogged" ELSE "Unclogged"]

\* Variant: STATE_MAPPING.get(id, "Unclogged"), a defaulted label.
LookupDefault(c) ==
    IF c \in DOMAIN STATE_MAPPING THEN Ok(STATE_MAPPING[c]) ELSE Ok("Unclogged")

\* STATE_MAPPING[prediction[0]]: KeyError for an id that is no key.
Lookup(c) ==
    IF c \in DOMAIN STATE_MAPPING THEN Ok(STATE_MAPPING[c]) ELSE Raise("KeyError")

\* lines 70-76
NewEntry(p, c, label, now) ==
    [PCA1 |-> p[1], PCA2 |-> p[2], Cluster |-> c, Condition |-> label,
     Timestamp |-> now]

\* Variant: pd.concat([new_entry, pca_history]), newest first.
PrependEntry(h, e) == <<e>> \o h

\* line 77: pd.concat([pca_history, new_entry], ignore_index=True)
AppendEntry(h, e) == Append(h, e)

(***************************************************************************)
(* process_data(encoder_count, current), lines 34-80.  The result gives    *)
(* the session state it leaves, what it returns (state; None when nothing  *)
(* was classified) or the exception it raises (exc), the inference stages  *)
(* it invoked and the cluster id kmeans.predict returned (<<>> when it     *)
(* returned none).  now is the reading of datetime.now().                  *)
(***************************************************************************)
Result(d, h, state, exc, stages, cluster) ==
    [data |-> d, pca_history |-> h, state |-> state, exc |-> exc,
     stages |-> stages, cluster |-> cluster]

\* Which way a call went, read off the conditions of lines 44 and 51 and
\* off the result.
PathOf(r) ==
    IF ~IsFull(r.data) THEN "filling"
    ELSE IF SkipWindow(EncoderDiff(r.data)) THEN "degenerate"
    ELSE IF r.exc # None THEN "inference_error"
    ELSE "classified"

\* Variant: the record is concatenated before the label is looked up, so a
\* failing lookup leaves a record without a label behind.
InferAppendBeforeLookup(d, h, a, now) ==
    LET imp == Impute(Features(d))
        sc  == ScalerTransform(a, imp.out)
        pc2 == PcaTransform(a, sc.out)
        km  == KMeansPredict(a, pc2.out)
        lab == Lookup(km.out)
        all == <<"imputer", "scaler", "pca", "kmeans">>
    IN  IF ~imp.ok THEN Result(d, h, None, imp.exc, SubSeq(all, 1, 1), <<>>)
        ELSE IF ~sc.ok THEN Result(d, h, None, sc.exc, SubSeq(all, 1, 2), <<>>)
        ELSE IF ~pc2.ok THEN Result(d, h, None, pc2.exc, SubSeq(all, 1, 3), <<>>)
        ELSE IF ~km.ok THEN Result(d, h, None, km.exc, all, <<>>)
        ELSE IF ~lab.ok
             THEN Result(d, AppendEntry(h, NewEntry(pc2.out, km.out, None, now)),
                         None, lab.exc, all, <<km.out>>)
        ELSE Result(d, AppendEntry(h, NewEntry(pc2.out, km.out, lab.out, now)),
                    lab.out, None, all, <<km.out>>)

Infer(d, h, a, now) ==
    LET imp == Impute(Features(d))
        sc  == ScalerTransform(a, imp.out)
        pc2 == PcaTransform(a, sc.out)
        km  == KMeansPredict(a, pc2.out)
        lab == Lookup(km.out)
        all == <<"imputer", "scaler", "pca", "kmeans">>
    IN  IF ~imp.ok THEN Result(d, h, None, imp.exc, SubSeq(all, 1, 1), <<>>)
        ELSE IF ~sc.ok THEN Result(d, h, None, sc.exc, SubSeq(all, 1, 2), <<>>)
        ELSE IF ~pc2.ok THEN Result(d, h, None, pc2.exc, SubSeq(all, 1, 3), <<>>)
        ELSE IF ~km.ok THEN Result(d, h, None, km.exc, all, <<>>)
        ELSE IF ~lab.ok THEN Result(d, h, None, lab.exc, all, <<km.out>>)
        ELSE Result(d, AppendEntry(h, NewEntry(pc2.out, km.out, lab.out, now)),
                    lab.out, None, all, <<km.out>>)

process_data(d0, h, a, now, seq, enc, cur) ==
    LET d == Trim(Concat(d0, seq, enc, cur))
    IN  IF IsFull(d)
        THEN IF SkipWindow(EncoderDiff(d))
             THEN Result(d, h, None, None, <<>>, <<>>)
             ELSE Infer(d, h, a, now)
        ELSE Result(d, h, None, None, <<>>, <<>>)

(***************************************************************************)
(* State.                                                                  *)
(*   pc          "idle" before Connect, "loop" while the read loop runs,   *)
(*               "stopped" once the script run has ended (the loop's       *)
(*               `break`, or the run cut short inside the display); the    *)
(*               session state outlives the run and Connect starts the     *)
(*               loop again on it (lines 27-32 only fill what is missing)  *)
(*   art         the loaded scaler / pca / kmeans artifacts                *)
(*   data        st.session_state.data                                     *)
(*   pca_history st.session_state.pca_history                              *)
(*   predictions st.session_state.predictions                              *)
(*   pushes      number of process_data calls so far; it also serves as    *)
(*               the reading of datetime.now() (one tick per call)         *)
(*   last        what the latest step did: the line read, the path taken,  *)
(*               the exception raised by the read, the parse or            *)
(*               process_data, process_data's return value, the            *)
(*               inference stages invoked, the cluster id predicted and    *)
(*               the status message shown                                  *)
(***************************************************************************)
VARIABLES pc, art, data, pca_history, predictions, pushes, last

vars == << pc, art, data, pca_history, predictions, pushes, last >>

\* A status message: st.success / st.warning / st.error with its text, and
\* the input line interpolated into it (<<>> when none is).
Report(level, text, echo) == [level |-> level, text |-> text, echo |-> echo]

NoReport == Report("none", "", <<>>)

Last(line, path, exc, state, stages, cluster, report) ==
    [line |-> line, path |-> path, exc |-> exc, state |-> state,
     stages |-> stages, cluster |-> cluster, report |-> report]

\* lines 17-32: artifacts loaded, empty session state.
Init ==
    /\ pc = "idle"
    /\ art \in Artifacts
    /\ data = <<>>
    /\ pca_history = <<>>
    /\ predictions = <<>>
    /\ pushes = 0
    /\ last = Last(<<>>, "start", None, None, <<>>, <<>>, NoReport)

\* lines 99-102 in a script run started by the Connect button:
\* serial.Serial(...) succeeds and the loop is entered (line 107).
Connect ==
    /\ pc \in {"idle", "stopped"}
    /\ pc' = "loop"
    /\ last' = Last(<<>>, "connected", None, None, <<>>, <<>>,
                    Report("success", "Connected to ", <<>>))
    /\ UNCHANGED << art, data, pca_history, predictions, pushes >>

\* lines 103-104: serial.Serial(...) raises; `ser` stays unbound.
ConnectFails ==
    /\ pc \in {"idle", "stopped"}
    /\ last' = Last(<<>>, "connect_failed", "SerialException", None, <<>>, <<>>,
                    Report("error", "Connection failed: ", <<>>))
    /\ UNCHANGED << pc, art, data, pca_history, predictions, pushes >>

\* lines 112-113 raising (ser.readline: SerialException; decode:
\* UnicodeDecodeError), caught at line 180: report and break.
ReadFails ==
    /\ pc = "loop"
    /\ \E e \in {"SerialException", "UnicodeDecodeError"} :
          last' = Last(<<>>, "read_error", e, None, <<>>, <<>>,
                       Report("error", "Error: ", <<>>))
    /\ pc' = "stopped"
    /\ UNCHANGED << art, data, pca_history, predictions, pushes >>

\* line 115 false: the read timed out (empty line); sleep and read again.
ReadTimeout ==
    /\ pc = "loop"
    /\ \E line \in Lines :
          /\ ~LineTruthy(line)
          /\ last' = Last(line, "timeout", None, None, <<>>, <<>>, NoReport)
    /\ UNCHANGED << pc, art, data, pca_history, predictions, pushes >>

\* lines 175-176: len(parts) != 2.
InvalidFormat ==
    /\ pc = "loop"
    /\ \E line \in Lines :
          /\ LineTruthy(line)
          /\ ~TwoFields(line)
          /\ last' = Last(line, "format", None, None, <<>>, <<>>,
                          Report("warning", "Invalid format: ", line))
    /\ UNCHANGED << pc, art, data, pca_history, predictions, pushes >>

\* lines 119-120 raising ValueError, caught at lines 173-174.
InvalidData ==
    /\ pc = "loop"
    /\ \E line \in Lines :
          /\ LineTruthy(line)
          /\ TwoFields(line)
          /\ ~(ParseFloat(line[1]).ok /\ ParseFloat(line[2]).ok)
          /\ last' = Last(line, "parse", "ValueError", None, <<>>, <<>>,
                          Report("warning", "Skipped invalid data: ", line))
    /\ UNCHANGED << pc, art, data, pca_history, predictions, pushes >>

\* How the display of lines 124-166 ends: "shown" (line 169 is reached),
\* "raised" (a Streamlit or plotly call raises, caught at line 180) or
\* "interrupted" (Streamlit stops the script run inside one of its calls
\* because the user asked for a rerun; no handler of the script runs).
DisplayOutcomes == {"shown", "raised", "interrupted"}

\* lines 119-171 for a line whose two fields parse: process_data, the
\* display, the tally; a ValueError out of process_data is caught at lines
\* 173-174, any other exception at lines 180-182 (report and break).
SampleLine(line) ==
    LET encoder == ParseFloat(line[1]).val
        current == ParseFloat(line[2]).val
    IN \E r \in {process_data(data, pca_history, art, pushes + 1,
                              pushes + 1, encoder, current)} :
        /\ data' = r.data
        /\ pca_history' = r.pca_history
        /\ pushes' = pushes + 1
        /\ IF r.exc = None
           THEN \E display \in DisplayOutcomes :
                   IF display = "shown"
                   THEN /\ predictions' =
                              IF Truthy(r.state)
                              THEN Append(predictions, r.state)
                              ELSE predictions
                        /\ pc' = pc
                        /\ last' = Last(line, PathOf(r), None, r.state,
                                        r.stages, r.cluster,
                                        IF Truthy(r.state)
                                        THEN Report("success", "Status: ", <<>>)
                                        ELSE NoReport)
                   ELSE /\ predictions' = predictions
                        /\ pc' = "stopped"
                        /\ last' = Last(line, "display_aborted", None, r.state,
                                        r.stages, r.cluster,
                                        IF display = "raised"
                                        THEN Report("error", "Error: ", <<>>)
                                        ELSE NoReport)
           ELSE IF IsValueError(r.exc)
           THEN /\ predictions' = predictions
                /\ pc' = pc
                /\ last' = Last(line, PathOf(r), r.exc, None, r.stages,
                                r.cluster,
                                Report("warning",
                                       "Skipped invalid data: ", line))
           ELSE /\ predictions' = predictions
                /\ pc' = "stopped"
                /\ last' = Last(line, PathOf(r), r.exc, None, r.stages,
                                r.cluster,
                                Report("error", "Error: ", <<>>))
        /\ UNCHANGED art

Sample ==
    /\ pc = "loop"
    /\ pushes < MaxPushes
    /\ \E line \in Lines :
          /\ LineTruthy(line)
          /\ TwoFields(line)
          /\ ParseFloat(line[1]).ok /\ ParseFloat(line[2]).ok
          /\ SampleLine(line)

Next ==
    \/ Connect
    \/ ConnectFails
    \/ ReadFails
    \/ ReadTimeout
    \/ InvalidFormat
    \/ InvalidData
    \/ Sample

Spec == Init /\ [][Next]_vars

(***************************************************************************)
(* A second feed for the claims about steadily advancing encoders: healthy *)
(* artifacts, only well-formed lines, and an encoder count that grows with *)
(* every sample (by one along 0,1,2,3,4, or by more).                      *)
(***************************************************************************)
RampLines ==
    { <<"0", "1">>, <<"1", "1">>, <<"2", "1">>, <<"3", "1">>, <<"4", "1">>,
      <<"0", "3">>, <<"1", "3">>, <<"2", "3">>, <<"3", "3">>, <<"4", "3">> }

FLess(x, y) == IsFinite(x) /\ IsFinite(y) /\ x.n * y.d < y.n * x.d

InitRamp ==
    /\ Init
    /\ art = [scaler |-> "ok", pca |-> "ok", kmeans |-> "k2"]

RampSample ==
    /\ pc = "loop"
    /\ pushes < MaxPushes
    /\ \E line \in RampLines :
          /\ LineTruthy(line)
          /\ TwoFields(line)
          /\ ParseFloat(line[1]).ok /\ ParseFloat(line[2]).ok
          /\ IF data = <<>>
             THEN TRUE
             ELSE FLess(data[Len(data)].EncoderCount, ParseFloat(line[1]).val)
          /\ SampleLine(line)

NextRamp ==
    \/ Connect
    \/ RampSample

SpecRamp == InitRamp /\ [][NextRamp]_vars

(***************************************************************************)
(* Properties.                                                             *)
(***************************************************************************)
Min(a, b) == IF a < b THEN a ELSE b

\* The buffer's samples without their index labels.
Samples(d) ==
    [i \in 1..Len(d) |->
        [seq |-> d[i].seq, EncoderCount |-> d[i].EncoderCount,
         Current |-> d[i].Current]]

\* The step just taken was a process_data call (the latest step is one).
CalledProcessData ==
    last.path \in {"filling", "degenerate", "inference_error", "classified",
                   "display_aborted"}

\* C1: after N process_data calls the buffer holds exactly
\* min(N, WINDOW_SIZE) rows, so it never exceeds WINDOW_SIZE.
C1_BufferLength == Len(data) = Min(pushes, WINDOW_SIZE)

C1_Witness ==
    /\ CalledProcessData
    /\ pushes > WINDOW_SIZE
    /\ Len(data) = WINDOW_SIZE

\* C2: once more than WINDOW_SIZE samples were pushed the buffer is exactly
\* the last WINDOW_SIZE samples pushed, oldest first; a push appends the
\* parsed sample at the end and evicts, if anything, only the front row.
C2_Step ==
    pushes' = pushes + 1 =>
        LET kept == IF Len(data) < WINDOW_SIZE THEN data ELSE Tail(data)
            new  == [seq |-> pushes',
                     EncoderCount |-> ParseFloat(last'.line[1]).val,
                     Current |-> ParseFloat(last'.line[2]).val]
        IN  /\ Samples(data') = Append(Samples(kept), new)
            /\ pushes' > WINDOW_SIZE =>
                  /\ Len(data') = WINDOW_SIZE
                  /\ \A i \in 1..WINDOW_SIZE :
                        data'[i].seq = pushes' - WINDOW_SIZE + i

C2_LastWindowInArrivalOrder == [][C2_Step]_vars

C2_Witness ==
    /\ CalledProcessData
    /\ pushes > WINDOW_SIZE + 1
    /\ data[1].seq = pushes - WINDOW_SIZE + 1
    /\ data[1].EncoderCount # data[2].EncoderCount

\* The inference chain, run on window d with artifacts a, raises nothing
\* (every stage succeeds and the cluster id is a key of STATE_MAPPING).
StagesSucceed(d, a) == Infer(d, <<>>, a, 0).exc = None

\* C3: the first WINDOW_SIZE - 1 valid lines append no record and return no
\* label; the WINDOW_SIZE-th, on a non-degenerate window with succeeding
\* stages, appends exactly one; no record exists while the buffer holds
\* fewer than WINDOW_SIZE samples.
C3_FirstRecordAtFullWindow ==
    /\ Len(data) < WINDOW_SIZE =>
          /\ pca_history = <<>>
          /\ predictions = <<>>
          /\ last.state = None
    /\ pushes < WINDOW_SIZE => Len(data) < WINDOW_SIZE
    /\ ( /\ pushes = WINDOW_SIZE
         /\ ~FIsZero(EncoderDiff(data))
         /\ IsFinite(EncoderDiff(data))
         /\ StagesSucceed(data, art) ) => Len(pca_history) = 1

C3_Witness ==
    /\ pushes = WINDOW_SIZE
    /\ last.path = "classified"
    /\ Len(pca_history) = 1

\* C4: a call that leaves a full window whose first and last encoder
\* counts are equal (encoderDiff == 0) appends no record, returns no label,
\* raises nothing and invokes no inference stage.
C4_Step ==
    ( /\ pushes' = pushes + 1
      /\ IsFull(data')
      /\ \/ FIsZero(EncoderDiff(data'))
         \/ /\ data'[1].EncoderCount = data'[Len(data')].EncoderCount
            /\ ~IsNaN(data'[1].EncoderCount) )
    => /\ pca_history' = pca_history
       /\ predictions' = predictions
       /\ last'.state = None
       /\ last'.exc = None
       /\ last'.stages = <<>>

C4_DegenerateWindowSkipped == [][C4_Step]_vars

C4_Witness ==
    /\ last.path = "degenerate"
    /\ FIsZero(EncoderDiff(data))
    /\ pca_history # <<>>
    /\ last.stages = <<>>

\* C5: a line with a field count other than 2, or with a field that is no
\* float, leaves buffer, history and tally unchanged, is reported with the
\* line echoed, and the loop goes on.
Malformed(line) == line \in BadFieldCountLines \cup BadNumberLines

C5_Step ==
    (last' # last /\ Malformed(last'.line)) =>
        /\ data' = data
        /\ pca_history' = pca_history
        /\ predictions' = predictions
        /\ pushes' = pushes
        /\ last'.report.level = "warning"
        /\ last'.report.echo = last'.line
        /\ pc' = "loop"

C5_MalformedLineSkipped == [][C5_Step]_vars

C5_Witness ==
    /\ Malformed(last.line)
    /\ last.line = <<"abc", "1">>
    /\ last.report.echo = <<"abc", "1">>
    /\ pc = "loop"
    /\ data # <<>>

\* C6: an inference stage failing (imputer, scaler, pca, kmeans or the
\* label lookup raising) loses only that cycle: the failure is reported and
\* the read loop keeps running.
C6_InferenceFailureKeepsLoop ==
    last.path = "inference_error" =>
        /\ last.report.level \in {"warning", "error"}
        /\ pc = "loop"

\* C7: every history record has a cluster id in {0, 1} and the label of
\* that id (0 Clogged, 1 Unclogged, distinct labels); a predicted id
\* outside {0, 1} appends no record, returns no label and ends in an
\* exception, not in the (None, None) of a cycle without classification.
KnownLabel(c) == IF c = 0 THEN "Clogged" ELSE "Unclogged"

C7_Step ==
    /\ \A i \in 1..Len(pca_history') :
          /\ pca_history'[i].Cluster \in {0, 1}
          /\ pca_history'[i].Condition = KnownLabel(pca_history'[i].Cluster)
    /\ \A i \in 1..Len(pca_history') : \A j \in 1..Len(pca_history') :
          pca_history'[i].Cluster # pca_history'[j].Cluster
              => pca_history'[i].Condition # pca_history'[j].Condition
    /\ ( /\ pushes' = pushes + 1
         /\ last'.cluster # <<>>
         /\ last'.cluster[1] \notin {0, 1} )
       => /\ pca_history' = pca_history
          /\ predictions' = predictions
          /\ last'.state = None
          /\ last'.exc # None
          /\ last'.report.level = "error"

C7_OnlyKnownClustersRecorded == [][C7_Step]_vars

C7_Witness ==
    /\ last.cluster = <<2>>
    /\ last.exc = "KeyError"
    /\ pca_history # <<>>

\* C8: a full window whose encoderDiff is NaN or infinite yields no feature
\* vector: no inference stage runs and no record is appended.
C8_NonFiniteDiffSkipped ==
    ( /\ CalledProcessData
      /\ IsFull(data)
      /\ ~IsFinite(EncoderDiff(data)) )
    => /\ last.stages = <<>>
       /\ last.state = None
       /\ \A i \in 1..Len(pca_history) : pca_history[i].Timestamp # pushes

\* C9: the history is append-only and in arrival order: each step leaves
\* the old history as a prefix of the new one, adds at most one record, and
\* records are ordered by the call that produced them.
IsPrefix(s, t) == Len(s) <= Len(t) /\ s = SubSeq(t, 1, Len(s))

C9_Step ==
    /\ IsPrefix(pca_history, pca_history')
    /\ Len(pca_history') <= Len(pca_history) + 1
    /\ \A i \in 1..Len(pca_history') : \A j \in 1..Len(pca_history') :
          i < j => pca_history'[i].Timestamp < pca_history'[j].Timestamp

C9_HistoryAppendOnly == [][C9_Step]_vars

C9_Witness ==
    /\ Len(pca_history) >= 2
    /\ last.path = "classified"
    /\ pca_history[1].PCA1 # pca_history[2].PCA1

\* C10: every skipped or failed evaluation (format error, parse error,
\* degenerate window, inference error) is reported with the raw input line
\* echoed back.
C10_EverySkipReportedWithInput ==
    last.path \in {"format", "parse", "degenerate", "inference_error"} =>
        /\ last.report.level \in {"warning", "error"}
        /\ last.report.echo = last.line

\* C11: a read that times out (an empty line) changes neither buffer,
\* history nor tally, shows no warning or error, and the loop reads on.
C11_Step ==
    (last' # last /\ last'.line = EmptyLine) =>
        /\ data' = data
        /\ pca_history' = pca_history
        /\ predictions' = predictions
        /\ pushes' = pushes
        /\ last'.report = NoReport
        /\ last'.exc = None
        /\ pc' = "loop"

C11_TimeoutIsNonEvent == [][C11_Step]_vars

C11_Witness ==
    /\ last.line = EmptyLine
    /\ last.report = NoReport
    /\ pc = "loop"
    /\ Len(data) = WINDOW_SIZE
    /\ pca_history # <<>>

\* C14: an inference error, a ValueError included, is never reported with
\* the 'Skipped invalid data' message of an unparsable line.
C14_InferenceErrorReportedDistinctly ==
    last.path = "inference_error" =>
        /\ last.report.level \in {"warning", "error"}
        /\ last.report.text # "Skipped invalid data: "

\* The window d as a first full window would hold it: index labels
\* 0..WINDOW_SIZE-1, no trace of the calls that pushed the rows.
Canon(d) ==
    [i \in 1..Len(d) |-> Row(i - 1, 0, d[i].EncoderCount, d[i].Current)]

\* C12: with the artifacts fixed, the features of a full window and the
\* (pca1, pca2, label) of its evaluation are a function of the window's
\* samples alone, the same for a first full window and for one reached
\* after evictions.
C12_ResultDependsOnWindowOnly ==
    /\ IsFull(data) => Features(data) = Features(Canon(data))
    /\ (CalledProcessData /\ Truthy(last.state)) =>
          LET rec == pca_history[Len(pca_history)]
              ref == Infer(Canon(data), <<>>, art, 0)
          IN  /\ ref.exc = None
              /\ rec.PCA1 = ref.pca_history[1].PCA1
              /\ rec.PCA2 = ref.pca_history[1].PCA2
              /\ rec.Condition = ref.state
              /\ last.state = ref.state

C12_Witness ==
    /\ last.path = "classified"
    /\ pushes > WINDOW_SIZE
    /\ data[1].idx = 1
    /\ Len(pca_history) >= 2

\* The encoder counts of d rise by exactly one per sample.
Ramp(d) ==
    \A i \in 2..Len(d) :
        d[i].EncoderCount = FAdd(d[i - 1].EncoderCount, Int2F(1))

\* C13: a full window whose encoder counts are c, c+1, c+2, ... has
\* encoderSlope 1, as a first full window and after evictions alike.
C13_RampSlopeIsOne ==
    (IsFull(data) /\ IsFinite(data[1].EncoderCount) /\ Ramp(data)) =>
        Features(data)[3] = Int2F(1)

C13_Witness ==
    /\ last.path = "classified"
    /\ pushes > WINDOW_SIZE
    /\ data[1].idx = 1
    /\ Ramp(data)
    /\ Features(data)[3] = Int2F(1)

\* C15: from the WINDOW_SIZE-th sample on the buffer is full after every
\* call and every sample is evaluated once: with all windows non-degenerate
\* and all inferences succeeding, N >= WINDOW_SIZE samples leave
\* N - WINDOW_SIZE + 1 records, one per call from the WINDOW_SIZE-th on.
C15_OneRecordPerSampleOnceFull ==
    /\ pushes >= WINDOW_SIZE => IsFull(data)
    /\ Len(pca_history) =
          IF pushes >= WINDOW_SIZE THEN pushes - WINDOW_SIZE + 1 ELSE 0
    /\ \A i \in 1..Len(pca_history) :
          pca_history[i].Timestamp = WINDOW_SIZE - 1 + i

C15_Witness ==
    /\ pushes = WINDOW_SIZE + 2
    /\ Len(pca_history) = 3
    /\ IsFull(data)

\* C16: an error of one record leaves no partial state: a malformed line
\* leaves buffer and history as they were; a degenerate skip or a failed
\* inference leaves the buffer with the new sample pushed (front row
\* evicted if it was full), not longer than WINDOW_SIZE, and the history
\* as it was.
C16_Step ==
    /\ (last' # last /\ Malformed(last'.line)) =>
          /\ data' = data
          /\ pca_history' = pca_history
    /\ ( /\ pushes' = pushes + 1
         /\ last'.path \in {"degenerate", "inference_error"} ) =>
          LET kept == IF Len(data) < WINDOW_SIZE THEN data ELSE Tail(data)
              new  == [seq |-> pushes',
                       EncoderCount |-> ParseFloat(last'.line[1]).val,
                       Current |-> ParseFloat(last'.line[2]).val]
          IN  /\ Samples(data') = Append(Samples(kept), new)
              /\ Len(data') <= WINDOW_SIZE
              /\ pca_history' = pca_history

C16_ErrorsLeaveNoPartialState == [][C16_Step]_vars

C16_Witness ==
    /\ last.path = "inference_error"
    /\ last.exc = "KeyError"
    /\ pushes > WINDOW_SIZE
    /\ pca_history # <<>>
    /\ Len(data) = WINDOW_SIZE

\* C17: whenever the loop is about to read, the tally has one label per
\* history record, the record's Condition, in the same order.
C17_TallyMirrorsHistory ==
    pc = "loop" =>
        /\ Len(predictions) = Len(pca_history)
        /\ \A i \in 1..Len(predictions) :
              predictions[i] = pca_history[i].Condition

====
